---- MODULE Spec2Model ----
(***************************************************************************)
(* The two binary-STL bounding-box extractors of the repository,           *)
(* analyze_stl.py (one file) and check_single_stl.py (one file, or every   *)
(* ".stl" entry of the directory "output"), run one after the other        *)
(* against the same read-only file system and command line.                *)
(*                                                                         *)
(* A file is the sequence of its bytes; a read returns at most the bytes   *)
(* that are left; struct.unpack fails unless it is handed exactly the      *)
(* number of bytes of its format.  A Python float is represented by the    *)
(* sign, exponent and mantissa fields of the 32-bit pattern it was decoded *)
(* from (the widening to a double is exact and keeps the order).           *)
(***************************************************************************)
EXTENDS Integers, Sequences, FiniteSets, TLC

(***************************************************************************)
(* Bounds of the input domain.                                             *)
(***************************************************************************)
MaxTriangles == 2       \* triangle records synthesized into a file
MaxDirEntries == 3      \* entries of the directory "output"

(***************************************************************************)
(* Sizes the code reads.                                                   *)
(***************************************************************************)
HeaderLen == 80
CountLen == 4
NormalLen == 12
VertexLen == 12
AttrLen == 2
VerticesPerTriangle == 3
Axes == 1..3

Unbound == "unbound"    \* a Python name that is not bound yet

(***************************************************************************)
(* Strings are tuples of characters, so that suffixes, ordering and path   *)
(* splitting are computed.                                                 *)
(***************************************************************************)
Ord(c) ==
    CASE c = "." -> 46 [] c = "/" -> 47 [] c = "B" -> 66 [] c = "L" -> 76
      [] c = "S" -> 83 [] c = "T" -> 84 [] c = "_" -> 95 [] c = "a" -> 97
      [] c = "b" -> 98 [] c = "c" -> 99 [] c = "d" -> 100 [] c = "e" -> 101
      [] c = "g" -> 103 [] c = "i" -> 105 [] c = "l" -> 108 [] c = "m" -> 109
      [] c = "n" -> 110 [] c = "o" -> 111 [] c = "p" -> 112 [] c = "r" -> 114
      [] c = "s" -> 115 [] c = "t" -> 116 [] c = "u" -> 117 [] c = "w" -> 119

DefaultFilename ==
    <<"o", "u", "t", "p", "u", "t", "/", "t", "o", "r", "o", "i", "d", "a",
      "l", "_", "o", "n", "e", "_", "t", "u", "r", "n", "_", "r", "e", "c",
      "t", "a", "n", "g", "u", "l", "a", "r", "_", "w", "i", "r", "e", ".",
      "s", "t", "l">>
output_dir == <<"o", "u", "t", "p", "u", "t">>
StlSuffix == <<".", "s", "t", "l">>

\* str.endswith
endswith(s, suffix) ==
    /\ Len(s) >= Len(suffix)
    /\ SubSeq(s, Len(s) - Len(suffix) + 1, Len(s)) = suffix

\* str.__lt__: code points, left to right; a proper prefix is smaller
RECURSIVE StrLt(_, _)
StrLt(s, t) ==
    IF t = <<>> THEN FALSE
    ELSE IF s = <<>> THEN TRUE
    ELSE IF Ord(Head(s)) # Ord(Head(t)) THEN Ord(Head(s)) < Ord(Head(t))
    ELSE StrLt(Tail(s), Tail(t))

\* sorted(): insertion into an ascending list, equal elements keep their order
RECURSIVE Insert(_, _)
Insert(x, l) ==
    IF l = <<>> THEN <<x>>
    ELSE IF StrLt(x, Head(l)) THEN <<x>> \o l
    ELSE <<Head(l)>> \o Insert(x, Tail(l))

\* the listing taken as the operating system returned it
sorted_AsListed(l) == l

RECURSIVE sorted(_)
sorted(l) ==
    IF l = <<>> THEN <<>>
    ELSE Insert(l[Len(l)], sorted(SubSeq(l, 1, Len(l) - 1)))

\* position of the last "/" of p, 0 when there is none
LastSlash(p) ==
    LET S == {k \in 1..Len(p) : p[k] = "/"}
    IN  IF S = {} THEN 0 ELSE CHOOSE k \in S : \A m \in S : m <= k

\* os.path.basename (POSIX)
basename(p) == SubSeq(p, LastSlash(p) + 1, Len(p))

\* os.path.join (POSIX), two components
join(a, p) ==
    IF p # <<>> /\ Head(p) = "/" THEN p
    ELSE IF a = <<>> \/ a[Len(a)] = "/" THEN a \o p
    ELSE a \o <<"/">> \o p

(***************************************************************************)
(* struct.unpack.  It raises struct.error unless the buffer has exactly    *)
(* the size of the format.                                                 *)
(***************************************************************************)
StructOk(data, size) == Len(data) = size

\* "<I": little-endian unsigned 32-bit (the inputs keep the top byte below
\* 128, so that the value stays inside the integers TLC computes with)
unpack_I(data) ==
    data[1] + 256 * data[2] + 65536 * data[3] + 16777216 * data[4]

\* "<f": sign, exponent and mantissa of a little-endian IEEE-754 single
unpack_f(d) ==
    LET neg == d[4] \div 128 = 1
        exp == (d[4] % 128) * 2 + (d[3] \div 128)
        man == (d[3] % 128) * 65536 + d[2] * 256 + d[1]
    IN  [cls |-> IF exp = 255 THEN (IF man = 0 THEN "inf" ELSE "nan") ELSE "num",
         neg |-> neg, exp |-> exp, man |-> man]

\* "<fff" / "<3f": three consecutive singles
unpack_fff(data) ==
    [k \in Axes |-> unpack_f(SubSeq(data, 4 * (k - 1) + 1, 4 * k))]

\* float("inf"), float("-inf")
PosInf == [cls |-> "inf", neg |-> FALSE, exp |-> 255, man |-> 0]
NegInf == [cls |-> "inf", neg |-> TRUE, exp |-> 255, man |-> 0]

IsNaN(a) == a.cls = "nan"
IsZero(a) == a.cls = "num" /\ a.exp = 0 /\ a.man = 0

\* order of the magnitudes: that of the (exponent, mantissa) fields
MagLt(a, b) == a.exp < b.exp \/ (a.exp = b.exp /\ a.man < b.man)

\* float.__lt__: false when either side is a NaN; -0.0 is not below 0.0
FloatLt(a, b) ==
    IF IsNaN(a) \/ IsNaN(b) THEN FALSE
    ELSE IF a.neg /\ ~b.neg THEN ~(IsZero(a) /\ IsZero(b))
    ELSE IF ~a.neg /\ b.neg THEN FALSE
    ELSE IF a.neg THEN MagLt(b, a)
    ELSE MagLt(a, b)

\* float.__eq__
FloatEq(a, b) == ~IsNaN(a) /\ ~IsNaN(b) /\ ~FloatLt(a, b) /\ ~FloatLt(b, a)

\* min with the roles of its arguments exchanged: the second argument
\* unless the first is below it
py_min_SecondUnlessAbove(a, b) == IF FloatLt(a, b) THEN a ELSE b

\* builtin min(a, b): the first argument unless the second is below it
py_min(a, b) == IF FloatLt(b, a) THEN b ELSE a

\* max with the roles of its arguments exchanged: the second argument
\* unless it is below the first
py_max_SecondUnlessBelow(a, b) == IF FloatLt(b, a) THEN a ELSE b

\* builtin max(a, b): the first argument unless the second is above it
py_max(a, b) == IF FloatLt(a, b) THEN b ELSE a

\* float.__sub__: the class and sign of a - b.  A finite difference of two
\* distinct doubles of single range neither overflows nor rounds to zero, so
\* its sign is that of the comparison; its value is determined by (a, b).
FloatSub(a, b) ==
    IF IsNaN(a) \/ IsNaN(b) THEN [cls |-> "nan", sgn |-> 0, of |-> <<a, b>>]
    ELSE IF a.cls = "inf" /\ b.cls = "inf" THEN
        IF a.neg = b.neg THEN [cls |-> "nan", sgn |-> 0, of |-> <<a, b>>]
        ELSE [cls |-> "inf", sgn |-> IF a.neg THEN -1 ELSE 1, of |-> <<a, b>>]
    ELSE IF a.cls = "inf" THEN
        [cls |-> "inf", sgn |-> IF a.neg THEN -1 ELSE 1, of |-> <<a, b>>]
    ELSE IF b.cls = "inf" THEN
        [cls |-> "inf", sgn |-> IF b.neg THEN 1 ELSE -1, of |-> <<a, b>>]
    ELSE [cls |-> "num",
          sgn |-> IF FloatLt(b, a) THEN 1 ELSE IF FloatLt(a, b) THEN -1 ELSE 0,
          of |-> <<a, b>>]

(***************************************************************************)
(* File objects.  read(k) returns the next k bytes, or the fewer that are  *)
(* left, and advances the position by what it returned.                    *)
(***************************************************************************)
Min2(x, y) == IF x < y THEN x ELSE y

f_read(bytes, pos, k) == SubSeq(bytes, pos + 1, Min2(pos + k, Len(bytes)))

(***************************************************************************)
(* The inputs: synthesized binary STL files.                               *)
(***************************************************************************)
\* "<I" of struct.pack
pack_I(n) ==
    <<n % 256, (n \div 256) % 256, (n \div 65536) % 256, n \div 16777216>>

\* 32-bit patterns of the coordinates, as struct.pack("<f", v) writes them
F_PZero == <<0, 0, 0, 0>>        \*  0.0
F_NZero == <<0, 0, 0, 128>>      \* -0.0
F_One == <<0, 0, 128, 63>>       \*  1.0
F_NegTwo == <<0, 0, 0, 192>>     \* -2.0
F_PInf == <<0, 0, 128, 127>>     \*  inf
F_NInf == <<0, 0, 128, 255>>     \* -inf
F_NaN == <<0, 0, 192, 127>>      \*  nan
F32 == {F_PZero, F_NZero, F_One, F_NegTwo, F_PInf, F_NInf, F_NaN}

\* The file with the count field `count` and the triangle records of
\* `coords` (nine patterns a triangle): an 80-byte header, the count, and
\* per record a normal, three vertices and a 2-byte attribute field.
Synth(count, coords) ==
    LET K == Len(coords) \div (3 * VerticesPerTriangle)
        RecordLen == NormalLen + VerticesPerTriangle * VertexLen + AttrLen
        cnt == pack_I(count)
    IN  [i \in 1..(HeaderLen + CountLen + RecordLen * K) |->
            IF i <= HeaderLen THEN 83
            ELSE IF i <= HeaderLen + CountLen THEN cnt[i - HeaderLen]
            ELSE LET o == (i - HeaderLen - CountLen - 1) % RecordLen
                     r == (i - HeaderLen - CountLen - 1) \div RecordLen
                 IN  IF o < NormalLen THEN 255
                     ELSE IF o < RecordLen - AttrLen
                     THEN LET pat == coords[9 * r + ((o - NormalLen) \div 4) + 1]
                          IN  pat[((o - NormalLen) % 4) + 1]
                     ELSE 0]

Truncate(bytes, L) == SubSeq(bytes, 1, L)

\* K triangles whose coordinates are all bg, but for val at position pos
Spiked(K, bg, pos, val) ==
    [k \in 1..(9 * K) |-> IF k = pos THEN val ELSE bg]

\* K triangles of ordinary coordinates
Sample(K) ==
    [k \in 1..(9 * K) |-> IF k % 3 = 1 THEN F_One
                          ELSE IF k % 3 = 2 THEN F_NegTwo ELSE F_PZero]

\* complete files: the count field is the number of records
CompleteFiles ==
    {Synth(0, <<>>)} \cup
    {Synth(K, Spiked(K, bg, pos, val)) :
        <<K, bg, pos, val>> \in
            {t \in (1..MaxTriangles) \X F32 \X (1..(9 * MaxTriangles)) \X F32 :
                t[3] <= 9 * t[1]}}

\* files cut at every length, with every count field up to one more than the
\* records that follow and one far beyond them
CutFiles ==
    {Truncate(Synth(count, Sample(K)), L) :
        <<count, K, L>> \in
            {t \in ((0..(MaxTriangles + 1)) \cup {256}) \X (0..MaxTriangles)
                    \X (0..(HeaderLen + CountLen + 50 * MaxTriangles)) :
                t[3] <= HeaderLen + CountLen + 50 * t[2]}}

\* contents of the entries of the scanned directory: a complete file of one
\* triangle, and one that ends after its count field
DirFiles == {Synth(1, Sample(1)), Synth(1, <<>>)}

ArgPath == <<"d", "/", "m", ".", "s", "t", "l">>

DirNames ==
    { <<"a", ".", "s", "t", "l">>,
      <<"B", ".", "s", "t", "l">>,
      basename(DefaultFilename),
      <<"c", ".", "S", "T", "L">>,
      <<"a", ".", "s", "t", "l", ".", "b">> }

\* a file system: path -> bytes
NoFiles == [p \in {} |-> <<>>]
OneFile(path, bytes) == [p \in {path} |-> bytes]
DirOf(content) ==
    [p \in {join(output_dir, nm) : nm \in DOMAIN content} |-> content[basename(p)]]

\* every content of the directory "output"
DirContents ==
    UNION {[E -> DirFiles] :
        E \in {S \in SUBSET DirNames : Cardinality(S) <= MaxDirEntries}}

\* (command-line arguments, file system) of a run
Scenarios ==
    {<<(<<ArgPath>>), NoFiles>>}
    \cup {<<(<<ArgPath>>), OneFile(ArgPath, bytes)>> : bytes \in CompleteFiles \cup CutFiles}
    \cup {<<(<<>>), DirOf(content)>> : content \in DirContents}

\* os.listdir: the names of the entries of a directory, in any order (the
\* directory "output" exists in every run that scans it)
EntriesOf(fs, dir) ==
    {basename(p) : p \in {q \in DOMAIN fs : q = join(dir, basename(q))}}
Orders(S) ==
    {s \in [1..Cardinality(S) -> S] : \A x, y \in 1..Cardinality(S) : x # y => s[x] # s[y]}

(***************************************************************************)
(* State.                                                                  *)
(***************************************************************************)
VARIABLES
    args,   \* sys.argv[1:], the same for both scripts
    fs,     \* the file system: path -> bytes (never written)
    a,      \* the process running analyze_stl.py
    b       \* the process running check_single_stl.py

vars == <<args, fs, a, b>>

\* placeholders of names that are not bound yet
UnboundFile == [name |-> <<>>, pos |-> -1, closed |-> FALSE]
UnboundFloat == [cls |-> Unbound, neg |-> FALSE, exp |-> 0, man |-> 0]
UnboundInt == -1

\* sys.argv of a script
sys_argv(script) == <<script>> \o args

\* open(name, "rb"): a file object at position 0
open_rb(name) == [name |-> name, pos |-> 0, closed |-> FALSE]

\* the position after f.read(k)
Advance(f, k) == [f EXCEPT !.pos = f.pos + Len(f_read(fs[f.name], f.pos, k))]

\* a file closed at the end of the block only, and left open by an exception
with_exit_OpenOnError(p, err) ==
    IF err = ""
    THEN [p EXCEPT !.f.closed = TRUE, !.fds = p.fds \ {p.f.name},
                   !.err = err, !.pc = "after_with"]
    ELSE [p EXCEPT !.err = err, !.pc = "error"]

\* leaving a "with open(...) as f" block, normally or by an exception: the
\* file is closed, and an exception (err # "") ends the process
with_exit(p, err) ==
    [p EXCEPT !.f.closed = TRUE,
              !.fds = p.fds \ {p.f.name},
              !.err = err,
              !.pc = IF err = "" THEN "after_with" ELSE "error"]

(***************************************************************************)
(* analyze_stl.py                                                          *)
(***************************************************************************)
A_Init ==
    [pc |-> "start", filename |-> <<>>, f |-> UnboundFile, fds |-> {},
     num_triangles |-> UnboundInt,
     min_x |-> UnboundFloat, min_y |-> UnboundFloat, min_z |-> UnboundFloat,
     max_x |-> UnboundFloat, max_y |-> UnboundFloat, max_z |-> UnboundFloat,
     tri |-> 0, vtx |-> 0, out |-> <<>>, err |-> ""]

\* line 5
A_Start ==
    /\ a.pc = "start"
    /\ a' = [a EXCEPT !.filename = IF Len(sys_argv("analyze_stl.py")) > 1
                                   THEN sys_argv("analyze_stl.py")[2]
                                   ELSE DefaultFilename,
                      !.pc = "open"]
    /\ UNCHANGED <<args, fs, b>>

\* line 7: open(filename, "rb")
A_Open ==
    /\ a.pc = "open"
    /\ a' = IF a.filename \in DOMAIN fs
            THEN [a EXCEPT !.f = open_rb(a.filename),
                           !.fds = a.fds \cup {a.filename},
                           !.pc = "header"]
            ELSE [a EXCEPT !.err = "FileNotFoundError", !.pc = "error"]
    /\ UNCHANGED <<args, fs, b>>

\* line 8: header = f.read(80)
A_ReadHeader ==
    /\ a.pc = "header"
    /\ a' = [a EXCEPT !.f = Advance(a.f, HeaderLen), !.pc = "count"]
    /\ UNCHANGED <<args, fs, b>>

\* the three axis lines of lines 25-27
A_AxisLines(p) ==
    << [kind |-> "axis", axis |-> "X", min |-> p.min_x, max |-> p.max_x,
        size |-> FloatSub(p.max_x, p.min_x)],
       [kind |-> "axis", axis |-> "Y", min |-> p.min_y, max |-> p.max_y,
        size |-> FloatSub(p.max_y, p.min_y)],
       [kind |-> "axis", axis |-> "Z", min |-> p.min_z, max |-> p.max_z,
        size |-> FloatSub(p.max_z, p.min_z)] >>

\* lines 9-10: the count, and the line that reports it
A_CountStep(p) ==
    LET data == f_read(fs[p.f.name], p.f.pos, CountLen)
        q == [p EXCEPT !.f = Advance(p.f, CountLen)]
    IN  IF ~StructOk(data, CountLen) THEN with_exit(q, "struct.error")
        ELSE [q EXCEPT !.num_triangles = unpack_I(data),
                       !.out = Append(p.out, [kind |-> "count", n |-> unpack_I(data)]),
                       !.pc = "init"]

A_ReadCount ==
    /\ a.pc = "count"
    /\ a' = A_CountStep(a)
    /\ UNCHANGED <<args, fs, b>>

\* lines 12-13
A_InitExtrema ==
    /\ a.pc = "init"
    /\ a' = [a EXCEPT !.min_x = PosInf, !.min_y = PosInf, !.min_z = PosInf,
                      !.max_x = NegInf, !.max_y = NegInf, !.max_z = NegInf,
                      !.pc = "loop"]
    /\ UNCHANGED <<args, fs, b>>

\* lines 15-16: the next triangle; its normal is read and dropped
A_ReadNormal ==
    /\ a.pc = "loop"
    /\ a.tri < a.num_triangles
    /\ a' = [a EXCEPT !.f = Advance(a.f, NormalLen),
                      !.tri = a.tri + 1, !.vtx = 0, !.pc = "vertex"]
    /\ UNCHANGED <<args, fs, b>>

\* lines 19-21 with the last line copied from the one above it and its
\* right-hand side left as it was
A_Update_CopiedLine(p, v) ==
    [p EXCEPT !.min_x = py_min(p.min_x, v[1]), !.max_x = py_max(p.max_x, v[1]),
              !.min_y = py_min(p.min_y, v[2]), !.max_y = py_max(p.max_y, v[2]),
              !.min_z = py_min(p.min_z, v[2]), !.max_z = py_max(p.max_z, v[2])]

\* lines 19-21: the six running extrema after the vertex (x, y, z)
A_Update(p, v) ==
    [p EXCEPT !.min_x = py_min(p.min_x, v[1]), !.max_x = py_max(p.max_x, v[1]),
              !.min_y = py_min(p.min_y, v[2]), !.max_y = py_max(p.max_y, v[2]),
              !.min_z = py_min(p.min_z, v[3]), !.max_z = py_max(p.max_z, v[3])]

\* lines 17-21: one vertex
A_VertexStep(p) ==
    LET data == f_read(fs[p.f.name], p.f.pos, VertexLen)
        q == [p EXCEPT !.f = Advance(p.f, VertexLen)]
    IN  IF ~StructOk(data, VertexLen) THEN with_exit(q, "struct.error")
        ELSE [A_Update(q, unpack_fff(data)) EXCEPT
                  !.vtx = p.vtx + 1,
                  !.pc = IF p.vtx + 1 = VerticesPerTriangle THEN "attr" ELSE "vertex"]

A_ReadVertex ==
    /\ a.pc = "vertex"
    /\ a' = A_VertexStep(a)
    /\ UNCHANGED <<args, fs, b>>

\* line 22: the attribute field is read and dropped
A_ReadAttr ==
    /\ a.pc = "attr"
    /\ a' = [a EXCEPT !.f = Advance(a.f, AttrLen), !.pc = "loop"]
    /\ UNCHANGED <<args, fs, b>>

\* lines 24-27, and the end of the with block and of the script
A_ReportStep(p) ==
    [with_exit([p EXCEPT !.out = p.out \o <<[kind |-> "bbox"]>> \o A_AxisLines(p)], "")
        EXCEPT !.pc = "done"]

A_Report ==
    /\ a.pc = "loop"
    /\ a.tri >= a.num_triangles
    /\ a' = A_ReportStep(a)
    /\ UNCHANGED <<args, fs, b>>

A_Ended == a.pc \in {"done", "error"}

(***************************************************************************)
(* check_single_stl.py                                                     *)
(***************************************************************************)
B_Init ==
    [pc |-> "start", listing |-> <<>>, names |-> <<>>, idx |-> 0, calls |-> <<>>,
     fname |-> <<>>, f |-> UnboundFile, fds |-> {}, n |-> UnboundInt,
     mins |-> <<>>, maxs |-> <<>>, tri |-> 0, vtx |-> 0, out |-> <<>>, err |-> ""]

\* get_info printing the name of the file before it parses it
get_info_PrintsFirst(p, fname) ==
    [p EXCEPT !.fname = fname, !.calls = Append(p.calls, fname),
              !.out = Append(p.out, [kind |-> "name", name |-> basename(fname)]),
              !.f = UnboundFile, !.n = UnboundInt, !.mins = <<>>, !.maxs = <<>>,
              !.tri = 0, !.vtx = 0, !.pc = "open"]

\* a call get_info(fname): a fresh frame
get_info(p, fname) ==
    [p EXCEPT !.fname = fname, !.calls = Append(p.calls, fname),
              !.f = UnboundFile, !.n = UnboundInt, !.mins = <<>>, !.maxs = <<>>,
              !.tri = 0, !.vtx = 0, !.pc = "open"]

\* lines 25-26: a command-line argument names the one file
B_Main ==
    /\ A_Ended
    /\ b.pc = "start"
    /\ b' = IF Len(sys_argv("check_single_stl.py")) > 1
            THEN get_info(b, sys_argv("check_single_stl.py")[2])
            ELSE [b EXCEPT !.pc = "listdir"]
    /\ UNCHANGED <<args, fs, a>>

\* lines 29-30: sorted(os.listdir(output_dir))
B_ListDir ==
    /\ b.pc = "listdir"
    /\ \E listing \in Orders(EntriesOf(fs, output_dir)) :
          b' = [b EXCEPT !.listing = listing, !.names = sorted(listing),
                         !.idx = 0, !.pc = "scan"]
    /\ UNCHANGED <<args, fs, a>>

\* str.lower, on the characters of the names
lower(c) ==
    CASE c = "B" -> "b" [] c = "L" -> "l" [] c = "S" -> "s" [] c = "T" -> "t"
      [] OTHER -> c

\* line 31 with the case of the extension ignored: f.lower().endswith('.stl')
is_stl_AnyCase(name) == endswith([i \in 1..Len(name) |-> lower(name[i])], StlSuffix)

\* line 31: the entry is a candidate
is_stl(name) == endswith(name, StlSuffix)

\* lines 30-31: an entry that does not end in ".stl" is passed over
B_Skip ==
    /\ b.pc = "scan"
    /\ b.idx < Len(b.names)
    /\ ~is_stl(b.names[b.idx + 1])
    /\ b' = [b EXCEPT !.idx = b.idx + 1]
    /\ UNCHANGED <<args, fs, a>>

\* lines 30-32: get_info(os.path.join(output_dir, f))
B_Call ==
    /\ b.pc = "scan"
    /\ b.idx < Len(b.names)
    /\ is_stl(b.names[b.idx + 1])
    /\ b' = get_info([b EXCEPT !.idx = b.idx + 1],
                     join(output_dir, b.names[b.idx + 1]))
    /\ UNCHANGED <<args, fs, a>>

\* line 30: the listing is exhausted
B_Exit ==
    /\ b.pc = "scan"
    /\ b.idx >= Len(b.names)
    /\ b' = [b EXCEPT !.pc = "done"]
    /\ UNCHANGED <<args, fs, a>>

\* line 6: open(fname, 'rb')
B_Open ==
    /\ b.pc = "open"
    /\ b' = IF b.fname \in DOMAIN fs
            THEN [b EXCEPT !.f = open_rb(b.fname),
                           !.fds = b.fds \cup {b.fname},
                           !.pc = "header"]
            ELSE [b EXCEPT !.err = "FileNotFoundError", !.pc = "error"]
    /\ UNCHANGED <<args, fs, a>>

\* line 7: f.read(80)
B_ReadHeader ==
    /\ b.pc = "header"
    /\ b' = [b EXCEPT !.f = Advance(b.f, HeaderLen), !.pc = "count"]
    /\ UNCHANGED <<args, fs, a>>

\* line 8
B_CountStep(p) ==
    LET data == f_read(fs[p.f.name], p.f.pos, CountLen)
        q == [p EXCEPT !.f = Advance(p.f, CountLen)]
    IN  IF ~StructOk(data, CountLen) THEN with_exit(q, "struct.error")
        ELSE [q EXCEPT !.n = unpack_I(data), !.pc = "init"]

B_ReadCount ==
    /\ b.pc = "count"
    /\ b' = B_CountStep(b)
    /\ UNCHANGED <<args, fs, a>>

\* lines 9-10
B_InitExtrema ==
    /\ b.pc = "init"
    /\ b' = [b EXCEPT !.mins = [i \in Axes |-> PosInf],
                      !.maxs = [i \in Axes |-> NegInf],
                      !.pc = "loop"]
    /\ UNCHANGED <<args, fs, a>>

\* lines 11-12 with one iteration too many: range(n + 1)
B_ReadNormal_OneMore ==
    /\ b.pc = "loop"
    /\ b.tri < b.n + 1
    /\ b' = [b EXCEPT !.f = Advance(b.f, NormalLen),
                      !.tri = b.tri + 1, !.vtx = 0, !.pc = "vertex"]
    /\ UNCHANGED <<args, fs, a>>

\* lines 11-12: the next triangle; its normal is read and dropped
B_ReadNormal ==
    /\ b.pc = "loop"
    /\ b.tri < b.n
    /\ b' = [b EXCEPT !.f = Advance(b.f, NormalLen),
                      !.tri = b.tri + 1, !.vtx = 0, !.pc = "vertex"]
    /\ UNCHANGED <<args, fs, a>>

\* lines 15-17: mins and maxs after the vertex v
B_Update(p, v) ==
    [p EXCEPT !.mins = [i \in Axes |-> py_min(p.mins[i], v[i])],
              !.maxs = [i \in Axes |-> py_max(p.maxs[i], v[i])]]

\* lines 13-17: one vertex
B_VertexStep(p) ==
    LET data == f_read(fs[p.f.name], p.f.pos, VertexLen)
        q == [p EXCEPT !.f = Advance(p.f, VertexLen)]
    IN  IF ~StructOk(data, VertexLen) THEN with_exit(q, "struct.error")
        ELSE [B_Update(q, unpack_fff(data)) EXCEPT
                  !.vtx = p.vtx + 1,
                  !.pc = IF p.vtx + 1 = VerticesPerTriangle THEN "attr" ELSE "vertex"]

B_ReadVertex ==
    /\ b.pc = "vertex"
    /\ b' = B_VertexStep(b)
    /\ UNCHANGED <<args, fs, a>>

\* line 18: the attribute field is read and dropped
B_ReadAttr ==
    /\ b.pc = "attr"
    /\ b' = [b EXCEPT !.f = Advance(b.f, AttrLen), !.pc = "loop"]
    /\ UNCHANGED <<args, fs, a>>

\* lines 19-23: the two lines of a file
B_Lines(p) ==
    << [kind |-> "name", name |-> basename(p.fname)],
       [kind |-> "info", n |-> p.n,
        dx |-> FloatSub(p.maxs[1], p.mins[1]),
        dy |-> FloatSub(p.maxs[2], p.mins[2]),
        dz |-> FloatSub(p.maxs[3], p.mins[3])] >>

\* lines 19-23, the end of the with block, and the return to the caller:
\* the end of the script (line 26) or the scan of the directory (line 30)
B_ReportStep(p) ==
    [with_exit([p EXCEPT !.out = p.out \o B_Lines(p)], "")
        EXCEPT !.pc = IF Len(sys_argv("check_single_stl.py")) > 1
                      THEN "done" ELSE "scan"]

B_Report ==
    /\ b.pc = "loop"
    /\ b.tri >= b.n
    /\ b' = B_ReportStep(b)
    /\ UNCHANGED <<args, fs, a>>

B_Ended == b.pc \in {"done", "error"}

(***************************************************************************)
(* The specification.                                                      *)
(***************************************************************************)
Init ==
    /\ \E sc \in Scenarios : args = sc[1] /\ fs = sc[2]
    /\ a = A_Init
    /\ b = B_Init

Next ==
    \/ A_Start \/ A_Open \/ A_ReadHeader \/ A_ReadCount \/ A_InitExtrema
    \/ A_ReadNormal \/ A_ReadVertex \/ A_ReadAttr \/ A_Report
    \/ B_Main \/ B_ListDir \/ B_Skip \/ B_Call \/ B_Exit
    \/ B_Open \/ B_ReadHeader \/ B_ReadCount \/ B_InitExtrema
    \/ B_ReadNormal \/ B_ReadVertex \/ B_ReadAttr \/ B_Report

Spec == Init /\ [][Next]_vars

(***************************************************************************)
(* What the properties speak of, read off the input independently of the   *)
(* extractors.                                                             *)
(***************************************************************************)
SingleMode == args # <<>>
DirMode == args = <<>>

\* the unsigned 32-bit integer stored at byte offset 80
HasCount(bytes) == Len(bytes) >= 84
CountAt80(bytes) ==
    bytes[81] + 256 * bytes[82] + 65536 * bytes[83] + 16777216 * bytes[84]

\* the length the count field implies
FullLen(bytes) == 84 + 50 * CountAt80(bytes)

\* every vertex of the records the count announces is in the file
VerticesPresent(bytes) == HasCount(bytes) /\ Len(bytes) >= FullLen(bytes) - 2

\* the values the coordinate patterns stand for
KnownValue(pat) ==
    CASE pat = F_PZero -> [cls |-> "num", neg |-> FALSE, exp |-> 0, man |-> 0]
      [] pat = F_NZero -> [cls |-> "num", neg |-> TRUE, exp |-> 0, man |-> 0]
      [] pat = F_One -> [cls |-> "num", neg |-> FALSE, exp |-> 127, man |-> 0]
      [] pat = F_NegTwo -> [cls |-> "num", neg |-> TRUE, exp |-> 128, man |-> 0]
      [] pat = F_PInf -> [cls |-> "inf", neg |-> FALSE, exp |-> 255, man |-> 0]
      [] pat = F_NInf -> [cls |-> "inf", neg |-> TRUE, exp |-> 255, man |-> 0]
      [] pat = F_NaN -> [cls |-> "nan", neg |-> FALSE, exp |-> 255, man |-> 4194304]

\* the coordinates on axis k of the 3*N vertices of a file
AxisValues(bytes, k) ==
    {KnownValue(SubSeq(bytes, 84 + 50 * r + 12 + 12 * v + 4 * (k - 1) + 1,
                              84 + 50 * r + 12 + 12 * v + 4 * k)) :
        <<r, v>> \in (0..(CountAt80(bytes) - 1)) \X (0..2)}

Numbers(S) == {c \in S : c.cls # "nan"}

FloatLe(x, y) == FloatLt(x, y) \/ FloatEq(x, y)

\* m is the smallest (largest) of the values S
Smallest(m, S) == (\E c \in S : FloatEq(m, c)) /\ (\A c \in S : ~FloatLt(c, m))
Largest(m, S) == (\E c \in S : FloatEq(m, c)) /\ (\A c \in S : ~FloatLt(m, c))

\* the running extrema of analyze_stl.py, as check_single_stl.py keeps them
A_mins == <<a.min_x, a.min_y, a.min_z>>
A_maxs == <<a.max_x, a.max_y, a.max_z>>

\* the file each process is at
A_File == fs[a.filename]
B_File == fs[b.fname]
A_HasFile == a.filename \in DOMAIN fs
B_HasFile == b.fname \in DOMAIN fs

A_Done == a.pc = "done"
\* the last call of get_info has returned
B_Returned == b.calls # <<>> /\ b.pc \in {"scan", "done"}

Kinds(out) == {out[i].kind : i \in 1..Len(out)}
\* the names of the files check_single_stl.py has reported
Reported == {b.out[i].name : i \in {j \in 1..Len(b.out) : b.out[j].kind = "name"}}

(***************************************************************************)
(* Truncated input.                                                        *)
(***************************************************************************)
\* a process has not reported, and will not report, the file it is at
A_Rejects ==
    /\ a.pc # "done"
    /\ Kinds(a.out) \cap {"bbox", "axis"} = {}
    /\ a.pc = "error" => a.err = "struct.error"
B_Rejects ==
    /\ ~B_Returned
    /\ basename(b.fname) \notin Reported
    /\ b.pc = "error" => b.err = "struct.error"

\* C1: every file shorter than 84 + 50*N bytes, N being the count at offset
\* 80, is rejected with a read/parsing error and no bounding box or size is
\* reported for it, wherever the file is cut.
C1_AnyTruncationFails ==
    /\ (A_HasFile /\ HasCount(A_File) /\ Len(A_File) < FullLen(A_File)) => A_Rejects
    /\ (B_HasFile /\ HasCount(B_File) /\ Len(B_File) < FullLen(B_File)) => B_Rejects

\* What the extractors do: a file shorter than 84 + 50*N - 2 bytes (one that
\* lacks a byte of a vertex or of a normal) is rejected with struct.error and
\* nothing is reported for it; a file that lacks only bytes of the attribute
\* field of its last record is accepted, the short read going unnoticed.
VertexTruncationFails ==
    /\ (A_HasFile /\ HasCount(A_File) /\ Len(A_File) < FullLen(A_File) - 2) => A_Rejects
    /\ (B_HasFile /\ HasCount(B_File) /\ Len(B_File) < FullLen(B_File) - 2) => B_Rejects
    /\ (A_HasFile /\ VerticesPresent(A_File)) => a.pc # "error"
    /\ (B_HasFile /\ VerticesPresent(B_File)) => b.pc # "error"

\* both extractors have failed on a file that lacks the last byte of its
\* last vertex
VertexTruncationReached ==
    /\ SingleMode /\ A_HasFile /\ HasCount(A_File)
    /\ CountAt80(A_File) >= 1
    /\ Len(A_File) = FullLen(A_File) - 3
    /\ a.pc = "error" /\ a.err = "struct.error"
    /\ b.pc = "error" /\ b.err = "struct.error"

(***************************************************************************)
(* Output before a failure.                                                *)
(***************************************************************************)
\* C2, as stated: a run that aborts has written nothing to standard output.
C2_NoOutputBeforeFailure ==
    /\ a.pc = "error" => a.out = <<>>
    /\ b.pc = "error" => b.out = <<>>

\* the path of a file check_single_stl.py reported under the name nm
PathOf(nm) == IF SingleMode THEN args[1] ELSE join(output_dir, nm)

\* the calls of get_info that have returned
Completed == Len(b.calls) - (IF b.calls # <<>> /\ ~B_Returned THEN 1 ELSE 0)

\* C2, amended: no bounding-box or size line is written for a file before
\* all its records are parsed.  When it aborts, analyze_stl.py has written
\* its count line if it read the count, and nothing else; check_single_stl.py
\* has written nothing for the failing file, and the two lines of each file
\* it completed before.
C2_NoReportOfFailedFile ==
    /\ Kinds(a.out) \cap {"bbox", "axis"} # {} =>
            a.pc = "done" /\ VerticesPresent(A_File)
    /\ a.pc = "error" =>
            a.out = IF a.num_triangles = UnboundInt THEN <<>>
                    ELSE <<[kind |-> "count", n |-> a.num_triangles]>>
    /\ \A nm \in Reported :
            PathOf(nm) \in DOMAIN fs /\ VerticesPresent(fs[PathOf(nm)])
    /\ Len(b.out) = 2 * Completed

\* both scripts have failed, analyze_stl.py after its count line and
\* check_single_stl.py after the report of an earlier file
C2_Witness ==
    /\ DirMode
    /\ a.pc = "error" /\ Len(a.out) = 1
    /\ b.pc = "error" /\ Len(b.out) = 2

(***************************************************************************)
(* Round trip.                                                             *)
(***************************************************************************)
\* a synthesized file: K >= 1 records, and K in the count field
RoundTripInput(bytes) ==
    HasCount(bytes) /\ CountAt80(bytes) >= 1 /\ Len(bytes) = FullLen(bytes)

Records(bytes) == (Len(bytes) - 84) \div 50

\* C3, as stated: from a synthesized file of K >= 1 triangles of any 32-bit
\* floats, extraction succeeds with count K and, on each axis, min equal to
\* the smallest and max equal to the largest coordinate of the 3*K vertices.
C3_RoundTripAnyFloats ==
    /\ (A_HasFile /\ RoundTripInput(A_File) /\ A_Ended) =>
            /\ A_Done
            /\ a.num_triangles = Records(A_File)
            /\ \A k \in Axes : /\ Smallest(A_mins[k], AxisValues(A_File, k))
                               /\ Largest(A_maxs[k], AxisValues(A_File, k))
    /\ (B_HasFile /\ RoundTripInput(B_File) /\ (B_Returned \/ b.pc = "error")) =>
            /\ B_Returned
            /\ b.n = Records(B_File)
            /\ \A k \in Axes : /\ Smallest(b.mins[k], AxisValues(B_File, k))
                               /\ Largest(b.maxs[k], AxisValues(B_File, k))

\* the box of the coordinates that are not NaN; the sentinels where an axis
\* has none
BoxOfNumbers(mins, maxs, bytes) ==
    \A k \in Axes :
        LET S == Numbers(AxisValues(bytes, k))
        IN  IF S = {} THEN mins[k] = PosInf /\ maxs[k] = NegInf
            ELSE Smallest(mins[k], S) /\ Largest(maxs[k], S)

\* C3, amended: from a synthesized file of K >= 1 triangles, extraction
\* succeeds with count K and, on each axis, min equal to the smallest and max
\* equal to the largest of the coordinates that are not NaN; an axis whose
\* coordinates are all NaN keeps min = +inf and max = -inf.
C3_RoundTrip ==
    /\ (A_HasFile /\ RoundTripInput(A_File) /\ A_Ended) =>
            /\ A_Done
            /\ a.num_triangles = Records(A_File)
            /\ BoxOfNumbers(A_mins, A_maxs, A_File)
    /\ (B_HasFile /\ RoundTripInput(B_File) /\ (B_Returned \/ b.pc = "error")) =>
            /\ B_Returned
            /\ b.n = Records(B_File)
            /\ BoxOfNumbers(b.mins, b.maxs, B_File)

\* both extractors are through a synthesized file of two triangles whose
\* x coordinates differ
C3_Witness ==
    /\ SingleMode /\ A_HasFile /\ RoundTripInput(A_File)
    /\ CountAt80(A_File) = 2
    /\ A_Done /\ b.pc = "done"
    /\ FloatLt(a.min_x, a.max_x) /\ FloatLt(b.mins[1], b.maxs[1])

(***************************************************************************)
(* min <= max.                                                             *)
(***************************************************************************)
SizeNonNegative(sz) == sz.cls # "nan" /\ sz.sgn >= 0

\* the sizes the scripts have printed for the file they are at
A_Sizes == [k \in Axes |-> a.out[Len(a.out) - 3 + k].size]
B_Sizes == <<b.out[Len(b.out)].dx, b.out[Len(b.out)].dy, b.out[Len(b.out)].dz>>

\* C4, as stated: after a successful extraction with N > 0, min <= max on
\* every axis and every reported size is >= 0, whatever the vertex fields hold.
C4_MinLeMax ==
    /\ (A_Done /\ a.num_triangles > 0) =>
            \A k \in Axes : /\ FloatLe(A_mins[k], A_maxs[k])
                            /\ SizeNonNegative(A_Sizes[k])
    /\ (B_Returned /\ b.n > 0) =>
            \A k \in Axes : /\ FloatLe(b.mins[k], b.maxs[k])
                            /\ SizeNonNegative(B_Sizes[k])

\* what holds of one axis whose coordinates are S
AxisOrdered(S, mn, mx, sz) ==
    IF Numbers(S) = {}
    THEN mn = PosInf /\ mx = NegInf /\ sz.cls = "inf" /\ sz.sgn = -1
    ELSE /\ FloatLe(mn, mx)
         /\ \/ SizeNonNegative(sz)
            \/ sz.cls = "nan" /\ mn.cls = "inf" /\ mx = mn

\* C4, amended: after a successful extraction with N > 0, min <= max on every
\* axis that has a coordinate that is not NaN, and the size reported for it
\* is >= 0, or NaN when its min and max are the same infinity; an axis whose
\* coordinates are all NaN keeps min = +inf > max = -inf, and its size is -inf.
C4_MinLeMaxOfNumbers ==
    /\ (A_Done /\ a.num_triangles > 0) =>
            \A k \in Axes :
                AxisOrdered(AxisValues(A_File, k), A_mins[k], A_maxs[k], A_Sizes[k])
    /\ (B_Returned /\ b.n > 0) =>
            \A k \in Axes :
                AxisOrdered(AxisValues(B_File, k), b.mins[k], b.maxs[k], B_Sizes[k])

\* both extractors are through a file with a NaN and a number on one axis
C4_Witness ==
    /\ SingleMode /\ A_Done /\ b.pc = "done" /\ a.num_triangles > 0
    /\ \E k \in Axes :
          /\ \E c \in AxisValues(A_File, k) : c.cls = "nan"
          /\ Numbers(AxisValues(A_File, k)) # {}

(***************************************************************************)
(* No triangles.                                                           *)
(***************************************************************************)
ZeroInput(bytes) == HasCount(bytes) /\ CountAt80(bytes) = 0

\* C5: on a file of at least 84 bytes whose count field is 0, extraction
\* succeeds, reports the count 0, reads no record (it never reads past
\* offset 84) and leaves every min at +inf and every max at -inf, whatever
\* follows offset 84.
C5_ZeroTriangles ==
    /\ (A_HasFile /\ ZeroInput(A_File)) =>
            /\ a.pc # "error" /\ a.f.pos <= 84 /\ a.tri = 0
            /\ A_Done =>
                  /\ a.num_triangles = 0 /\ a.f.pos = 84
                  /\ a.out[1] = [kind |-> "count", n |-> 0]
                  /\ \A k \in Axes : A_mins[k] = PosInf /\ A_maxs[k] = NegInf
    /\ (B_HasFile /\ ZeroInput(B_File)) =>
            /\ b.pc # "error" /\ b.f.pos <= 84 /\ b.tri = 0
            /\ B_Returned =>
                  /\ b.n = 0 /\ b.f.pos = 84
                  /\ b.out[Len(b.out)].n = 0
                  /\ \A k \in Axes : b.mins[k] = PosInf /\ b.maxs[k] = NegInf

\* both extractors are through a file whose count is 0 and that goes on
\* after offset 84
C5_Witness ==
    /\ SingleMode /\ A_HasFile /\ ZeroInput(A_File) /\ Len(A_File) > 84
    /\ A_Done /\ b.pc = "done"
    /\ a.f.pos = 84 /\ b.f.pos = 84

(***************************************************************************)
(* The scan of the directory.                                              *)
(***************************************************************************)
\* the name ends in the four characters ".stl"
IsStlName(nm) ==
    /\ Len(nm) >= 4
    /\ nm[Len(nm) - 3] = "." /\ nm[Len(nm) - 2] = "s"
    /\ nm[Len(nm) - 1] = "t" /\ nm[Len(nm)] = "l"

Entries == EntriesOf(fs, output_dir)
StlEntries == {nm \in Entries : IsStlName(nm)}

\* how often get_info was called on the entry nm
Calls(nm) ==
    Cardinality({i \in 1..Len(b.calls) : b.calls[i] = output_dir \o <<"/">> \o nm})

\* C6, as stated: whatever the directory holds, the scan calls get_info
\* exactly once on each of the N entries that end in ".stl" and never on one
\* of the M others.
C6_EveryStlEntryOnce ==
    (DirMode /\ B_Ended) =>
        \A nm \in Entries : Calls(nm) = IF IsStlName(nm) THEN 1 ELSE 0

\* C6, amended: get_info is called on none of the M entries that do not end
\* in ".stl", at most once on each of the N that do, and on nothing else;
\* a scan that reaches its end (no call of get_info aborted the run) has
\* called it exactly once on each of the N and has skipped the M.
C6_StlEntriesOnly ==
    DirMode =>
        /\ \A nm \in Entries : Calls(nm) <= (IF IsStlName(nm) THEN 1 ELSE 0)
        /\ \A i \in 1..Len(b.calls) :
              \E nm \in StlEntries : b.calls[i] = output_dir \o <<"/">> \o nm
        /\ b.pc = "done" =>
              /\ \A nm \in StlEntries : Calls(nm) = 1
              /\ Len(b.calls) = Cardinality(StlEntries)
              /\ b.idx - Len(b.calls) = Cardinality(Entries \ StlEntries)
              /\ Len(b.out) = 2 * Cardinality(StlEntries)

\* a scan has reached its end after two calls and a skipped entry
C6_Witness ==
    /\ DirMode /\ b.pc = "done"
    /\ Len(b.calls) >= 2
    /\ b.idx > Len(b.calls)

\* the names get_info was called on, in the order of the calls
CalledNames == [i \in 1..Len(b.calls) |-> basename(b.calls[i])]

IsPrefix(s, t) == Len(s) <= Len(t) /\ SubSeq(t, 1, Len(s)) = s

\* C7, as stated: the calls of get_info follow the order of the listing the
\* operating system returned, restricted to the names that end in ".stl".
C7_ListingOrder ==
    (DirMode /\ b.pc \notin {"start", "listdir"}) =>
        /\ IsPrefix(CalledNames, SelectSeq(b.listing, IsStlName))
        /\ b.pc = "done" => CalledNames = SelectSeq(b.listing, IsStlName)

\* s is before t in the order of the code points
Before(s, t) ==
    \E k \in 1..Len(t) :
        /\ k <= Len(s) + 1
        /\ \A i \in 1..(k - 1) : s[i] = t[i]
        /\ k <= Len(s) => Ord(s[k]) < Ord(t[k])

\* C7, amended: the calls of get_info follow the ascending order of the names
\* by code point, whatever the order of the listing: every name called
\* is before the names called after it and before every name ending in ".stl"
\* that is not called yet; a scan that reaches its end has called them all.
C7_SortedOrder ==
    (DirMode /\ b.pc \notin {"start", "listdir"}) =>
        /\ \A i, j \in 1..Len(b.calls) : i < j => Before(CalledNames[i], CalledNames[j])
        /\ \A i \in 1..Len(b.calls) :
              \A nm \in StlEntries :
                  nm \notin {CalledNames[j] : j \in 1..Len(b.calls)} =>
                      Before(CalledNames[i], nm)
        /\ b.pc = "done" => {CalledNames[j] : j \in 1..Len(b.calls)} = StlEntries

\* a scan has reached its end after calls in an order that is not that of
\* the listing
C7_Witness ==
    /\ DirMode /\ b.pc = "done"
    /\ Len(b.calls) >= 2
    /\ CalledNames # SelectSeq(b.listing, IsStlName)

(***************************************************************************)
(* File handles.                                                           *)
(***************************************************************************)
\* C8: every file handle an extractor opens is closed on every exit path.
\* After normal completion and after an abort no handle is open, the file
\* object is closed, and no process holds more than one open handle at a time;
\* between two calls of get_info none is open.
C8_HandlesClosed ==
    /\ Cardinality(a.fds) <= 1
    /\ Cardinality(b.fds) <= 1
    /\ A_Ended => a.fds = {} /\ (a.f.pos >= 0 => a.f.closed)
    /\ (B_Ended \/ b.pc \in {"scan", "open"}) =>
            b.fds = {} /\ (b.f.pos >= 0 => b.f.closed)

\* both scripts were aborted by a truncated vertex read, check_single_stl.py
\* in its second file, and hold no open handle
C8_Witness ==
    /\ DirMode
    /\ a.pc = "error" /\ a.err = "struct.error" /\ a.f.closed /\ a.fds = {}
    /\ b.pc = "error" /\ b.err = "struct.error" /\ b.f.closed /\ b.fds = {}
    /\ Len(b.calls) >= 2

(***************************************************************************)
(* Monotonic accumulation.                                                 *)
(***************************************************************************)
\* a min is unchanged or strictly smaller, a max unchanged or strictly larger
Monotone(mn, mn2, mx, mx2) ==
    /\ mn2 = mn \/ FloatLt(mn2, mn)
    /\ mx2 = mx \/ FloatLt(mx, mx2)

C9_Step ==
    /\ (a.pc = "init" /\ a' # a) =>
            \A k \in Axes : A_mins'[k] = PosInf /\ A_maxs'[k] = NegInf
    /\ (a.pc = "vertex" /\ a' # a) =>
            \A k \in Axes : Monotone(A_mins[k], A_mins'[k], A_maxs[k], A_maxs'[k])
    /\ a.pc \in {"header", "count", "loop", "attr"} =>
            A_mins' = A_mins /\ A_maxs' = A_maxs
    /\ (b.pc = "init" /\ b' # b) =>
            \A k \in Axes : b.mins'[k] = PosInf /\ b.maxs'[k] = NegInf
    /\ (b.pc = "vertex" /\ b' # b) =>
            \A k \in Axes : Monotone(b.mins[k], b.mins'[k], b.maxs[k], b.maxs'[k])
    /\ b.pc \in {"header", "count", "loop", "attr"} =>
            b.mins' = b.mins /\ b.maxs' = b.maxs

\* C9: the six running extrema start at min = +inf and max = -inf; a step
\* that consumes a vertex leaves each min unchanged or makes it strictly
\* smaller and each max unchanged or strictly larger; the steps that consume
\* the header, the count, a normal or an attribute field leave them unchanged.
C9_MonotonicExtrema == [][C9_Step]_vars

\* an extractor is inside its second triangle with a min below the max it
\* started from
C9_Witness ==
    /\ a.pc \in {"vertex", "attr"} /\ a.tri = 2
    /\ FloatLt(a.min_x, PosInf) /\ FloatLt(a.min_x, a.max_x)

(***************************************************************************)
(* The two extractors on the same file.                                    *)
(***************************************************************************)
BothEnded == SingleMode /\ A_Ended /\ B_Ended
BothDone == SingleMode /\ A_Done /\ b.pc = "done"

\* C10: on the same file both extractors fail or both succeed, and
\* when they succeed they have read the same count N, consumed the same
\* number of bytes, 84 + 50*N, and computed the same min, max and size on
\* every axis.
C10_ExtractorsAgree ==
    /\ BothEnded => (A_Done <=> b.pc = "done")
    /\ BothDone =>
            /\ a.num_triangles = b.n
            /\ a.f.pos = b.f.pos /\ a.f.pos = 84 + 50 * a.num_triangles
            /\ \A k \in Axes : /\ A_mins[k] = b.mins[k]
                               /\ A_maxs[k] = b.maxs[k]
                               /\ A_Sizes[k] = B_Sizes[k]

\* What the extractors do: on the same file both fail, with the same error,
\* or both succeed, and when they succeed they have read the same count N,
\* consumed the same number of bytes (84 + 50*N, or the whole file when it
\* lacks bytes of the attribute field of its last record) and computed the
\* same min, max and size on every axis.
ExtractorsAgreeOnInput ==
    /\ BothEnded => (A_Done <=> b.pc = "done") /\ a.err = b.err
    /\ BothDone =>
            /\ a.num_triangles = b.n
            /\ a.f.pos = b.f.pos
            /\ a.f.pos = IF Len(A_File) < 84 + 50 * a.num_triangles
                         THEN Len(A_File) ELSE 84 + 50 * a.num_triangles
            /\ \A k \in Axes : /\ A_mins[k] = b.mins[k]
                               /\ A_maxs[k] = b.maxs[k]
                               /\ A_Sizes[k] = B_Sizes[k]

\* both extractors are through a file of two triangles that lacks the last
\* byte of its last attribute field
ShortAttributeAccepted ==
    /\ BothDone
    /\ a.num_triangles = 2 /\ b.n = 2
    /\ Len(A_File) = 84 + 50 * 2 - 1

====
